---- MODULE Spec2Model ----
(***************************************************************************)
(* A model of the tool-search ranking core: the BM25, regex and embedding  *)
(* search engines (src/src/rewriter.ts, src/src/search/regex.ts,           *)
(* src/src/search/embedding.ts), the embedding text formats                *)
(* (src/src/search/formats.ts) and the UnifiedSearchService router         *)
(* (src/src/search/index.ts).                                              *)
(*                                                                         *)
(* Strings are sequences of one-character strings.  Scores are fixed-point *)
(* numbers in units of 1/Scale.  An async method is split at its awaits:   *)
(* the part before the first await runs inside the action that issues the  *)
(* call, the part after it inside the action in which the embedding        *)
(* provider answers.  Code without an await runs to completion inside one  *)
(* action (JavaScript's run-to-completion).                                *)
(***************************************************************************)
EXTENDS Integers, Sequences, FiniteSets, TLC

\* ------------------------------------------------------------------ bounds

\* Calls of the embedding engine issued in one behaviour of SpecEmb.
MaxCalls == 4
\* Embedding-provider requests that may be outstanding at once.
MaxPending == 2
\* Router operations issued in one behaviour of Spec.
MaxOps == 2

\* ------------------------------------------------------- program constants

\* index.ts:104  const topK = request.topK || 5
DefaultTopK == 5

\* Fixed-point unit of every score: a score s stands for s / Scale.
Scale == 100 * 100

\* ----------------------------------------------------------------- strings

UpperChars ==
  <<"A","B","C","D","E","F","G","H","I","J","K","L","M",
    "N","O","P","Q","R","S","T","U","V","W","X","Y","Z">>

LowerChars ==
  <<"a","b","c","d","e","f","g","h","i","j","k","l","m",
    "n","o","p","q","r","s","t","u","v","w","x","y","z">>

DigitChars == {"0","1","2","3","4","5","6","7","8","9"}

\* String.prototype.toLowerCase, one character.
ToLowerChar(c) ==
  IF \E i \in 1..26 : UpperChars[i] = c
  THEN LowerChars[CHOOSE i \in 1..26 : UpperChars[i] = c]
  ELSE c

ToLowerCase(s) == [i \in 1..Len(s) |-> ToLowerChar(s[i])]

\* The regex class \w.
IsWordChar(c) ==
  \/ \E i \in 1..26 : UpperChars[i] = c \/ LowerChars[i] = c
  \/ c \in DigitChars
  \/ c = "_"

\* The regex class \s.
IsSpaceChar(c) == c \in {" ", "\n", "\t"}

\* s.replace(/_/g, " ")
ReplaceUnderscores(s) == [i \in 1..Len(s) |-> IF s[i] = "_" THEN " " ELSE s[i]]

RECURSIVE SplitFrom(_, _, _, _, _)
SplitFrom(s, i, acc, cur, inSep) ==
  IF i > Len(s) THEN Append(acc, cur)
  ELSE IF IsSpaceChar(s[i])
       THEN IF inSep THEN SplitFrom(s, i + 1, acc, cur, TRUE)
            ELSE SplitFrom(s, i + 1, Append(acc, cur), <<>>, TRUE)
       ELSE SplitFrom(s, i + 1, acc, Append(cur, s[i]), FALSE)

\* s.split(/\s+/): the pieces between runs of white space, empty pieces at
\* the two ends included.
SplitWs(s) == SplitFrom(s, 1, <<>>, <<>>, FALSE)

RECURSIVE JoinFrom(_, _, _)
JoinFrom(parts, sep, i) ==
  IF i > Len(parts) THEN <<>>
  ELSE IF i = Len(parts) THEN parts[i]
       ELSE parts[i] \o sep \o JoinFrom(parts, sep, i + 1)

\* Array.prototype.join
Join(parts, sep) == JoinFrom(parts, sep, 1)

\* words.filter((w) => w.length > 1), keeping the order.
RECURSIVE LongerThanOne(_)
LongerThanOne(words) ==
  IF words = <<>> THEN <<>>
  ELSE IF Len(Head(words)) > 1
       THEN <<Head(words)>> \o LongerThanOne(Tail(words))
       ELSE LongerThanOne(Tail(words))

\* String.prototype.includes
Includes(hay, needle) ==
  \E i \in 0..(Len(hay) - Len(needle)) : SubSeq(hay, i + 1, i + Len(needle)) = needle

\* String.prototype.startsWith
StartsWith(s, p) == Len(p) <= Len(s) /\ SubSeq(s, 1, Len(p)) = p

Min(a, b) == IF a <= b THEN a ELSE b
Max(a, b) == IF a >= b THEN a ELSE b

\* Array.prototype.slice(0, k) for an integer k >= 0.
SliceTo(s, k) == SubSeq(s, 1, Min(k, Len(s)))

Range(s) == {s[i] : i \in 1..Len(s)}

\* ------------------------------------------------ tool definitions (types.ts)

\* A ToolDefinition.  params is the insertion-ordered properties map: key,
\* whether the value is a non-null object, whether that object has a
\* "description" member, and the description.  hasSchema is FALSE for a
\* record passed without input_schema (the interface is not enforced at run
\* time): every read of tool.input_schema.properties then throws.
ReadFile ==
  [ name        |-> <<"r","e","a","d","_","f","i","l","e">>,
    description |-> <<"R","e","a","d"," ","a"," ","f","i","l","e">>,
    hasSchema   |-> TRUE,
    params      |-> << [ key |-> <<"p","a","t","h">>, isObject |-> TRUE,
                         hasDesc |-> TRUE,
                         desc |-> <<"f","i","l","e"," ","p","a","t","h">> ] >>,
    required    |-> << <<"p","a","t","h">> >> ]

WriteFile ==
  [ name        |-> <<"w","r","i","t","e","_","f","i","l","e">>,
    description |-> <<"W","r","i","t","e"," ","a"," ","f","i","l","e">>,
    hasSchema   |-> TRUE,
    params      |-> << [ key |-> <<"p","a","t","h">>, isObject |-> TRUE,
                         hasDesc |-> TRUE,
                         desc |-> <<"f","i","l","e"," ","p","a","t","h">> ] >>,
    required    |-> <<>> ]

ListDir ==
  [ name        |-> <<"l","i","s","t","_","d","i","r">>,
    description |-> <<"L","i","s","t"," ","a"," ","d","i","r",".">>,
    hasSchema   |-> TRUE,
    params      |-> << [ key |-> <<"d","i","r">>, isObject |-> TRUE,
                         hasDesc |-> FALSE, desc |-> <<>> ],
                       [ key |-> <<"a","l","l">>, isObject |-> FALSE,
                         hasDesc |-> FALSE, desc |-> <<>> ] >>,
    required    |-> << <<"d","i","r">> >> ]

Ping ==
  [ name        |-> <<"p","i","n","g">>,
    description |-> <<"P","i","n","g">>,
    hasSchema   |-> FALSE,
    params      |-> <<>>,
    required    |-> <<>> ]

\* Two tools without parameters: one named by a single word, one whose
\* name repeats that word.
GoTool ==
  [ name        |-> <<"g","o">>,
    description |-> <<"R","u","n">>,
    hasSchema   |-> TRUE,
    params      |-> <<>>,
    required    |-> <<>> ]

GoGo ==
  [ name        |-> <<"g","o","-","g","o","-","g","o","-","g","o","-","g","o">>,
    description |-> <<"x">>,
    hasSchema   |-> TRUE,
    params      |-> <<>>,
    required    |-> <<>> ]

\* Object.keys(tool.input_schema.properties || {})
ParamKeys(tool) == [i \in 1..Len(tool.params) |-> tool.params[i].key]

Names(tools) == [i \in 1..Len(tools) |-> tools[i].name]

\* Whether mapping over the tools reads input_schema of a tool without one.
AnyMalformed(tools) == \E i \in 1..Len(tools) : ~tools[i].hasSchema

\* ----------------------------------------------------- formats (formats.ts)

Str_ColonSp == <<":", " ">>
Str_Dash == <<" ", "-", " ">>
Str_Params == <<".", " ", "P","a","r","a","m","e","t","e","r","s", ":", " ">>

FormatMinimal(tool) == tool.description

FormatStandard(tool) ==
  ReplaceUnderscores(tool.name) \o Str_ColonSp \o tool.description

FormatRich(tool) ==
  LET paramNames == Join(ParamKeys(tool), <<",", " ">>)
      text == ReplaceUnderscores(tool.name) \o Str_Dash \o tool.name
                \o Str_ColonSp \o tool.description
  IN  IF paramNames # <<>> THEN text \o Str_Params \o paramNames ELSE text

RECURSIVE VerboseParams(_, _)
VerboseParams(params, i) ==
  IF i > Len(params) THEN <<>>
  ELSE LET p == params[i]
           rest == VerboseParams(params, i + 1)
       IN  IF p.isObject
           THEN IF p.hasDesc /\ p.desc # <<>>
                THEN << p.key \o Str_ColonSp \o p.desc >> \o rest
                ELSE << p.key >> \o rest
           ELSE rest

FormatVerbose(tool) ==
  LET paramDescriptions == VerboseParams(tool.params, 1)
      text == ReplaceUnderscores(tool.name) \o Str_Dash \o tool.name
                \o Str_ColonSp \o tool.description
  IN  IF Len(paramDescriptions) > 0
      THEN text \o Str_Params \o Join(paramDescriptions, <<";", " ">>)
      ELSE text

\* A parameter line whose marker stands before the name.
StructuredParamLeading(tool, p) ==
  LET isRequired == p.key \in Range(tool.required)
      desc == IF p.isObject /\ p.hasDesc THEN p.desc ELSE <<>>
  IN  <<" ", " ">> \o (IF isRequired THEN <<"*">> ELSE <<>>) \o p.key
        \o Str_ColonSp \o desc

\* The line of one parameter in formatStructured.
StructuredParam(tool, p) ==
  LET isRequired == p.key \in Range(tool.required)
      desc == IF p.isObject /\ p.hasDesc THEN p.desc ELSE <<>>
  IN  <<" ", " ">> \o p.key \o (IF isRequired THEN <<"*">> ELSE <<>>)
        \o Str_ColonSp \o desc

FormatStructured(tool) ==
  LET params == [i \in 1..Len(tool.params) |-> StructuredParam(tool, tool.params[i])]
      text == <<"T","o","o","l",":"," ">> \o tool.name \o <<"\n">>
                \o <<"D","e","s","c","r","i","p","t","i","o","n",":"," ">>
                \o tool.description
  IN  IF Len(params) > 0
      THEN text \o <<"\n">> \o <<"P","a","r","a","m","e","t","e","r","s",":">>
             \o <<"\n">> \o Join(params, <<"\n">>)
      ELSE text

Formats == {"minimal", "standard", "rich", "verbose", "structured"}

\* Whether formatToolForEmbedding(tool, format) throws: every format but
\* minimal and standard reads tool.input_schema.properties.
FormatThrows(tool, format) ==
  ~tool.hasSchema /\ format \notin {"minimal", "standard"}

FormatToolForEmbedding(tool, format) ==
  CASE format = "minimal"    -> FormatMinimal(tool)
    [] format = "standard"   -> FormatStandard(tool)
    [] format = "rich"       -> FormatRich(tool)
    [] format = "verbose"    -> FormatVerbose(tool)
    [] format = "structured" -> FormatStructured(tool)
    [] OTHER                 -> FormatRich(tool)

\* ------------------------------------------------------ results and sorting

\* A SearchResult of types.ts.
Result(tool, score) ==
  [name |-> tool.name, description |-> tool.description, score |-> score]

\* A sort that puts an element before its equals: equal scores come out in
\* reverse corpus order.
InsertByScoreUnstable(sorted, r) ==
  LET k == Cardinality({i \in 1..Len(sorted) : sorted[i].score > r.score})
  IN  SubSeq(sorted, 1, k) \o <<r>> \o SubSeq(sorted, k + 1, Len(sorted))

\* The place of r in a list already sorted with (a, b) => b.score - a.score:
\* behind every element that does not compare after it.
InsertByScore(sorted, r) ==
  LET k == Cardinality({i \in 1..Len(sorted) : sorted[i].score >= r.score})
  IN  SubSeq(sorted, 1, k) \o <<r>> \o SubSeq(sorted, k + 1, Len(sorted))

RECURSIVE SortFrom(_, _, _)
SortFrom(results, i, sorted) ==
  IF i > Len(results) THEN sorted
  ELSE SortFrom(results, i + 1, InsertByScore(sorted, results[i]))

\* results.sort((a, b) => b.score - a.score): Array.prototype.sort is stable.
SortByScoreDesc(results) == SortFrom(results, 1, <<>>)

RECURSIVE PositiveScores(_)
\* results.filter((r) => r.score > 0)
PositiveScores(results) ==
  IF results = <<>> THEN <<>>
  ELSE IF Head(results).score > 0
       THEN <<Head(results)>> \o PositiveScores(Tail(results))
       ELSE PositiveScores(Tail(results))

\* ------------------------------------------------------ BM25 (rewriter.ts)

\* text.replace(/[_-]/g, " ").replace(/[^\w\s]/g, " ")
StripPunctuation(s) ==
  [i \in 1..Len(s) |->
     IF s[i] \in {"_", "-"} THEN " "
     ELSE IF IsWordChar(s[i]) \/ IsSpaceChar(s[i]) THEN s[i] ELSE " "]

Tokenize(text) == LongerThanOne(SplitWs(StripPunctuation(ToLowerCase(text))))

RECURSIVE ParamDescriptionsAndKeys(_, _)
\* The loop over Object.entries(props): the description, when the value is
\* an object with one, then the key.
ParamDescriptionsAndKeys(params, i) ==
  IF i > Len(params) THEN <<>>
  ELSE LET p == params[i]
       IN  (IF p.isObject /\ p.hasDesc THEN <<p.desc>> ELSE <<>>)
             \o <<p.key>> \o ParamDescriptionsAndKeys(params, i + 1)

BuildDocumentText(tool) ==
  Join(<<ReplaceUnderscores(tool.name), tool.name, tool.description>>
         \o ParamKeys(tool) \o ParamDescriptionsAndKeys(tool.params, 1),
       <<" ">>)

CalculateTermFrequencies(tokens) ==
  [t \in Range(tokens) |-> Cardinality({i \in 1..Len(tokens) : tokens[i] = t})]

RECURSIVE AtanhSeries(_, _, _, _)
AtanhSeries(p, z2, k, n) ==
  IF k > n THEN 0
  ELSE (p \div (2 * k + 1)) + AtanhSeries((p * z2) \div Scale, z2, k + 1, n)

\* Math.log(num / den) in units of 1/Scale, for num >= den > 0:
\* ln x = 2 atanh((x - 1) / (x + 1)).
LnScaled(num, den) ==
  LET z == ((num - den) * Scale) \div (num + den)
  IN  2 * AtanhSeries(z, (z * z) \div Scale, 0, 8)

\* Math.log((docCount - docFreq + 0.5) / (docFreq + 0.5) + 1), in halves.
IdfOf(docCount, docFreq) ==
  LET n == 2 * (docCount - docFreq) + 1
      d == 2 * docFreq + 1
  IN  LnScaled(n + d, d)

\* A calculateIDF that keeps the entry a term already has.
CalculateIDFKeepOld(documents, idf) ==
  LET terms == UNION {Range(documents[i].tokens) : i \in 1..Len(documents)}
      docFreq(t) == Cardinality({i \in 1..Len(documents) : t \in Range(documents[i].tokens)})
  IN  [t \in (DOMAIN idf) \cup terms |->
         IF t \in DOMAIN idf THEN idf[t] ELSE IdfOf(Len(documents), docFreq(t))]

\* calculateIDF: the map is written entry by entry and never cleared here.
CalculateIDF(documents, idf) ==
  LET terms == UNION {Range(documents[i].tokens) : i \in 1..Len(documents)}
      docFreq(t) == Cardinality({i \in 1..Len(documents) : t \in Range(documents[i].tokens)})
  IN  [t \in (DOMAIN idf) \cup terms |->
         IF t \in terms THEN IdfOf(Len(documents), docFreq(t)) ELSE idf[t]]

\* A contribution that divides the formula's denominator by its numerator.
TermScoreInverted(doc, term, params, idf, avgDocLength) ==
  LET tf == IF term \in DOMAIN doc.termFrequencies THEN doc.termFrequencies[term] ELSE 0
      idfv == IF term \in DOMAIN idf THEN idf[term] ELSE 0
      num == tf * (params.k1[1] + params.k1[2]) * params.b[2] * avgDocLength[1]
      den == tf * params.k1[2] * params.b[2] * avgDocLength[1]
               + params.k1[1] * ((params.b[2] - params.b[1]) * avgDocLength[1]
                                   + params.b[1] * doc.length * avgDocLength[2])
  IN  IF tf = 0 THEN 0 ELSE (idfv * den) \div num

\* One query term's contribution to a document's score.  k1, b and the
\* average length are fractions <<numerator, denominator>>.
TermScore(doc, term, params, idf, avgDocLength) ==
  LET tf == IF term \in DOMAIN doc.termFrequencies THEN doc.termFrequencies[term] ELSE 0
      idfv == IF term \in DOMAIN idf THEN idf[term] ELSE 0
      k1n == params.k1[1]
      k1d == params.k1[2]
      bn == params.b[1]
      bd == params.b[2]
      an == avgDocLength[1]
      ad == avgDocLength[2]
      num == tf * (k1n + k1d) * bd * an
      den == tf * k1d * bd * an + k1n * ((bd - bn) * an + bn * doc.length * ad)
  IN  IF tf = 0 THEN 0 ELSE (idfv * num) \div den

RECURSIVE SumTerms(_, _, _, _, _, _)
SumTerms(doc, queryTokens, i, params, idf, avgDocLength) ==
  IF i > Len(queryTokens) THEN 0
  ELSE TermScore(doc, queryTokens[i], params, idf, avgDocLength)
         + SumTerms(doc, queryTokens, i + 1, params, idf, avgDocLength)

BM25CalculateScore(doc, queryTokens, params, idf, avgDocLength) ==
  SumTerms(doc, queryTokens, 1, params, idf, avgDocLength)

BM25Document(tool) ==
  LET tokens == Tokenize(BuildDocumentText(tool))
  IN  [tool |-> tool, tokens |-> tokens,
       termFrequencies |-> CalculateTermFrequencies(tokens),
       length |-> Len(tokens)]

RECURSIVE SumLengths(_, _)
SumLengths(documents, i) ==
  IF i > Len(documents) THEN 0
  ELSE documents[i].length + SumLengths(documents, i + 1)

NoValue == "none"

\* A SearchEngineConfig: every member is optional.
\* An absent bm25.k1 or bm25.b is the empty fraction.
NoConfig == [model |-> NoValue, format |-> NoValue, k1 |-> <<>>, b |-> <<>>]

\* The engine as constructed.
BM25New ==
  [params |-> [k1 |-> <<3, 2>>, b |-> <<3, 4>>],
   documents |-> <<>>, idf |-> <<>>, avgDocLength |-> <<0, 1>>,
   initialized |-> FALSE, tools |-> <<>>]

\* A merge that resets to its default a field the config does not give.
MergeParamsReset(params, cfg) ==
  [k1 |-> IF cfg.k1 = <<>> THEN <<3, 2>> ELSE cfg.k1,
   b  |-> IF cfg.b = <<>> THEN <<3, 4>> ELSE cfg.b]

\* this.params = {...this.params, ...config.bm25}
MergeParams(params, cfg) ==
  [k1 |-> IF cfg.k1 = <<>> THEN params.k1 ELSE cfg.k1,
   b  |-> IF cfg.b = <<>> THEN params.b ELSE cfg.b]

\* An initialize that indexes nothing and leaves the engine as it was, not
\* ready, when the corpus is empty.
BM25InitializeNonEmpty(e, tools, cfg) ==
  LET e1 == [e EXCEPT !.tools = tools, !.params = MergeParams(e.params, cfg)]
      documents == [i \in 1..Len(tools) |-> BM25Document(tools[i])]
  IN  IF AnyMalformed(tools)
      THEN [engine |-> e1, error |-> "TypeError"]
      ELSE IF tools = <<>>
      THEN [engine |-> e1, error |-> NoValue]
      ELSE [engine |->
              [e1 EXCEPT !.documents = documents,
                         !.avgDocLength = <<SumLengths(documents, 1), Len(documents)>>,
                         !.idf = CalculateIDF(documents, e.idf),
                         !.initialized = TRUE],
            error |-> NoValue]

\* An initialize that divides the total length by the number of documents.
BM25InitializeUnguarded(e, tools, cfg) ==
  LET e1 == [e EXCEPT !.tools = tools, !.params = MergeParams(e.params, cfg)]
      documents == [i \in 1..Len(tools) |-> BM25Document(tools[i])]
  IN  IF AnyMalformed(tools)
      THEN [engine |-> e1, error |-> "TypeError"]
      ELSE [engine |->
              [e1 EXCEPT !.documents = documents,
                         !.avgDocLength = <<SumLengths(documents, 1), Len(documents)>>,
                         !.idf = CalculateIDF(documents, e.idf),
                         !.initialized = TRUE],
            error |-> NoValue]

\* BM25SearchEngine.initialize: the engine after the call and how the call
\* ended.  A tool without input_schema throws inside tools.map, before
\* this.documents is assigned.
BM25Initialize(e, tools, cfg) ==
  LET e1 == [e EXCEPT !.tools = tools, !.params = MergeParams(e.params, cfg)]
      documents == [i \in 1..Len(tools) |-> BM25Document(tools[i])]
  IN  IF AnyMalformed(tools)
      THEN [engine |-> e1, error |-> "TypeError"]
      ELSE [engine |->
              [e1 EXCEPT !.documents = documents,
                         !.avgDocLength = <<SumLengths(documents, 1), Max(Len(documents), 1)>>,
                         !.idf = CalculateIDF(documents, e.idf),
                         !.initialized = TRUE],
            error |-> NoValue]

\* A reload that clears the index and ends before initialize has run.
BM25ReloadClearsOnly(e, tools, cfg) ==
  [engine |-> [e EXCEPT !.documents = <<>>, !.idf = <<>>, !.initialized = FALSE],
   error |-> NoValue]

\* BM25SearchEngine.reload
BM25Reload(e, tools, cfg) ==
  BM25Initialize([e EXCEPT !.documents = <<>>, !.idf = <<>>, !.initialized = FALSE],
                 tools, cfg)

\* BM25SearchEngine.search
BM25Search(e, query, topK) ==
  LET queryTokens == Tokenize(query)
      results == [i \in 1..Len(e.documents) |->
                    Result(e.documents[i].tool,
                           BM25CalculateScore(e.documents[i], queryTokens, e.params,
                                              e.idf, e.avgDocLength))]
  IN  IF ~e.initialized
      THEN [results |-> <<>>, error |-> "NotInitialized"]
      ELSE [results |-> SliceTo(SortByScoreDesc(results), topK), error |-> NoValue]

\* ------------------------------------------------------- regex (regex.ts)

BuildSearchText(tool) ==
  LET descs == [i \in 1..Len(tool.params) |->
                  IF tool.params[i].isObject /\ tool.params[i].hasDesc
                  THEN <<tool.params[i].desc>> ELSE <<>>]
      RECURSIVE Flat(_)
      Flat(i) == IF i > Len(descs) THEN <<>> ELSE descs[i] \o Flat(i + 1)
  IN  ToLowerCase(Join(<<tool.name, ReplaceUnderscores(tool.name), tool.description>>
                         \o ParamKeys(tool) \o Flat(1),
                       <<" ">>))

RECURSIVE SplitNameFrom(_, _, _, _)
SplitNameFrom(s, i, acc, cur) ==
  IF i > Len(s) THEN Append(acc, cur)
  ELSE IF s[i] \in {"_", "-"}
       THEN SplitNameFrom(s, i + 1, Append(acc, cur), <<>>)
       ELSE SplitNameFrom(s, i + 1, acc, Append(cur, s[i]))

RECURSIVE NonEmpty(_)
NonEmpty(parts) ==
  IF parts = <<>> THEN <<>>
  ELSE IF Len(Head(parts)) > 0 THEN <<Head(parts)>> \o NonEmpty(Tail(parts))
       ELSE NonEmpty(Tail(parts))

\* name.toLowerCase().split(/_|-/).filter((part) => part.length > 0)
ExtractNameParts(name) == NonEmpty(SplitNameFrom(ToLowerCase(name), 1, <<>>, <<>>))

\* Whether position p of text (0..Len) is a \b: exactly one of the
\* characters around it is a word character.
WordBoundary(text, p) ==
  LET before == p >= 1 /\ IsWordChar(text[p])
      after  == p + 1 <= Len(text) /\ IsWordChar(text[p + 1])
  IN  before # after

RECURSIVE CountBoundaryMatches(_, _, _)
\* text.match(new RegExp(`\\b${escaped}\\b`, "gi")).length for lower-case
\* text and word: the matches found left to right, none overlapping.
CountBoundaryMatches(text, word, i) ==
  IF i + Len(word) - 1 > Len(text) THEN 0
  ELSE IF /\ SubSeq(text, i, i + Len(word) - 1) = word
          /\ WordBoundary(text, i - 1)
          /\ WordBoundary(text, i + Len(word) - 1)
       THEN 1 + CountBoundaryMatches(text, word, i + Len(word))
       ELSE CountBoundaryMatches(text, word, i + 1)

\* The score one query word adds through the name parts.
RECURSIVE NamePartScore(_, _, _)
NamePartScore(nameParts, word, i) ==
  IF i > Len(nameParts) THEN 0
  ELSE (IF nameParts[i] = word THEN 20
        ELSE IF Includes(nameParts[i], word) THEN 10
        ELSE IF Includes(word, nameParts[i]) THEN 5
        ELSE 0) + NamePartScore(nameParts, word, i + 1)

RECURSIVE WordScores(_, _, _)
WordScores(doc, queryWords, i) ==
  IF i > Len(queryWords) THEN 0
  ELSE LET word == queryWords[i]
       IN  NamePartScore(doc.nameParts, word, 1)
             + 3 * CountBoundaryMatches(doc.searchText, word, 1)
             + (IF Includes(doc.searchText, word) THEN 1 ELSE 0)
             + (IF StartsWith(ToLowerCase(doc.tool.description), word) THEN 5 ELSE 0)
             + WordScores(doc, queryWords, i + 1)

\* RegexSearchEngine.calculateScore, in units of 1/Scale.
RegexCalculateScore(doc, query) ==
  LET queryLower == ToLowerCase(query)
      queryWords == LongerThanOne(SplitWs(queryLower))
      exact == IF ToLowerCase(doc.tool.name) = Join(SplitWs(queryLower), <<"_">>)
               THEN 100 ELSE 0
  IN  ((exact + WordScores(doc, queryWords, 1)) * Scale) \div Max(Len(queryWords), 1)

RegexNew == [documents |-> <<>>, initialized |-> FALSE, tools |-> <<>>]

\* RegexSearchEngine.initialize
RegexInitialize(e, tools, cfg) ==
  LET e1 == [e EXCEPT !.tools = tools]
  IN  IF AnyMalformed(tools)
      THEN [engine |-> e1, error |-> "TypeError"]
      ELSE [engine |->
              [e1 EXCEPT !.documents =
                           [i \in 1..Len(tools) |->
                              [tool |-> tools[i],
                               searchText |-> BuildSearchText(tools[i]),
                               nameParts |-> ExtractNameParts(tools[i].name)]],
                         !.initialized = TRUE],
            error |-> NoValue]

RegexReload(e, tools, cfg) ==
  RegexInitialize([e EXCEPT !.documents = <<>>, !.initialized = FALSE], tools, cfg)

\* A search that returns the filtered list even when it is empty.
RegexSearchNoFallback(e, query, topK) ==
  LET results == [i \in 1..Len(e.documents) |->
                    Result(e.documents[i].tool, RegexCalculateScore(e.documents[i], query))]
  IN  IF ~e.initialized
      THEN [results |-> <<>>, error |-> "NotInitialized"]
      ELSE [results |-> SliceTo(SortByScoreDesc(PositiveScores(results)), topK),
            error |-> NoValue]

\* A search that sorts every tool, matching or not, and returns the first topK.
RegexSearchUnfiltered(e, query, topK) ==
  LET results == [i \in 1..Len(e.documents) |->
                    Result(e.documents[i].tool, RegexCalculateScore(e.documents[i], query))]
  IN  IF ~e.initialized
      THEN [results |-> <<>>, error |-> "NotInitialized"]
      ELSE [results |-> SliceTo(SortByScoreDesc(results), topK), error |-> NoValue]

\* RegexSearchEngine.search
RegexSearch(e, query, topK) ==
  LET results == [i \in 1..Len(e.documents) |->
                    Result(e.documents[i].tool, RegexCalculateScore(e.documents[i], query))]
      filteredResults == SortByScoreDesc(PositiveScores(results))
  IN  IF ~e.initialized
      THEN [results |-> <<>>, error |-> "NotInitialized"]
      ELSE IF Len(filteredResults) = 0
           THEN [results |-> SliceTo(results, topK), error |-> NoValue]
           ELSE [results |-> SliceTo(filteredResults, topK), error |-> NoValue]

\* ---------------------------------------------- embedding (embedding.ts)

\* constructor: process.env.OLLAMA_MODEL || "nomic-embed-text-v2-moe"
DefaultModel == "nomic-embed-text-v2-moe"
\* Two other models of the provider: one with vectors of the same length as
\* the default model's, one with longer vectors.
SameDimModel == "all-minilm"
WideModel == "mxbai-embed-large"
Models == {DefaultModel, SameDimModel, WideModel}

\* The provider, ollama.embed({model, input}): a vector that depends on the
\* model and on the text only.  Every vector has an integer norm, so that
\* Math.sqrt is exact.
ProviderEmbed(model, text) ==
  LET k == Len(text) % 5
  IN  CASE model = DefaultModel ->
             <<<<5, 0>>, <<3, 4>>, <<0, 5>>, <<-4, 3>>, <<0, 0>>>>[k + 1]
        [] model = SameDimModel ->
             <<<<0, 5>>, <<-4, 3>>, <<0, 0>>, <<5, 0>>, <<3, 4>>>>[k + 1]
        [] OTHER ->
             <<<<5, 0, 0>>, <<3, 4, 0>>, <<0, 3, 4>>, <<0, 0, 5>>, <<0, 0, 0>>>>[k + 1]

\* Math.sqrt for a perfect square.
Sqrt(n) == CHOOSE r \in 0..n : r * r <= n /\ n < (r + 1) * (r + 1)

RECURSIVE Dot(_, _, _)
Dot(a, b, i) == IF i > Len(a) THEN 0 ELSE a[i] * b[i] + Dot(a, b, i + 1)

\* A similarity that divides by the norm of the first vector only.
CosineSimilarityHalfNormalized(a, b) ==
  LET denominator == Sqrt(Dot(a, a, 1))
  IN  IF denominator = 0 THEN 0 ELSE (Dot(a, b, 1) * Scale) \div denominator

\* cosineSimilarity for vectors of one length, in units of 1/Scale.
CosineSimilarity(a, b) ==
  LET denominator == Sqrt(Dot(a, a, 1)) * Sqrt(Dot(b, b, 1))
  IN  IF denominator = 0 THEN 0 ELSE (Dot(a, b, 1) * Scale) \div denominator

EmbNew ==
  [indexedTools |-> <<>>, tools |-> <<>>, initialized |-> FALSE,
   currentModel |-> DefaultModel, currentFormat |-> "rich"]

\* initialize up to its await: this.tools, the model and the format are
\* written, the texts are formatted with the format now current and the
\* provider is asked with the model now current.  A tool that cannot be
\* formatted throws before the provider is asked.
EmbInitializeStart(e, tools, cfg) ==
  LET e1 == [e EXCEPT !.tools = tools,
                      !.currentModel = IF cfg.model # NoValue THEN cfg.model ELSE @,
                      !.currentFormat = IF cfg.format # NoValue THEN cfg.format ELSE @]
  IN  IF \E i \in 1..Len(tools) : FormatThrows(tools[i], e1.currentFormat)
      THEN [engine |-> e1, error |-> "TypeError",
            request |-> [model |-> e1.currentModel, tools |-> <<>>, texts |-> <<>>]]
      ELSE [engine |-> e1, error |-> NoValue,
            request |-> [model |-> e1.currentModel, tools |-> tools,
                         texts |-> [i \in 1..Len(tools) |->
                                      FormatToolForEmbedding(tools[i], e1.currentFormat)]]]

\* reload up to the await inside initialize.
EmbReloadStart(e, tools, cfg) ==
  EmbInitializeStart([e EXCEPT !.indexedTools = <<>>, !.initialized = FALSE], tools, cfg)

\* initialize after its await, the provider having answered the request.
EmbInitializeFinish(e, request) ==
  [e EXCEPT !.indexedTools =
              [i \in 1..Len(request.tools) |->
                 [tool |-> request.tools[i],
                  embedding |-> ProviderEmbed(request.model, request.texts[i]),
                  formattedText |-> request.texts[i]]],
            !.initialized = TRUE]

\* A search that asks the provider whether the engine is initialized or not.
EmbSearchStartUnchecked(e, query) ==
  [error |-> NoValue, request |-> [model |-> e.currentModel, input |-> query]]

\* search up to its await.
EmbSearchStart(e, query) ==
  IF ~e.initialized
  THEN [error |-> "NotInitialized", request |-> [model |-> e.currentModel, input |-> query]]
  ELSE [error |-> NoValue, request |-> [model |-> e.currentModel, input |-> query]]

\* A search that returns nothing, without an error, when the vectors'
\* lengths differ.
EmbSearchFinishUnchecked(e, request, topK) ==
  LET queryEmbedding == ProviderEmbed(request.model, request.input)
      comparable == \A i \in 1..Len(e.indexedTools) :
                      Len(e.indexedTools[i].embedding) = Len(queryEmbedding)
  IN  [results |->
         IF comparable
         THEN SliceTo(SortByScoreDesc(
                [i \in 1..Len(e.indexedTools) |->
                   Result(e.indexedTools[i].tool,
                          CosineSimilarity(queryEmbedding, e.indexedTools[i].embedding))]),
                topK)
         ELSE <<>>,
       error |-> NoValue]

\* search after its await: the index read is the one current now.
EmbSearchFinish(e, request, topK) ==
  LET queryEmbedding == ProviderEmbed(request.model, request.input)
      results == [i \in 1..Len(e.indexedTools) |->
                    Result(e.indexedTools[i].tool,
                           CosineSimilarity(queryEmbedding, e.indexedTools[i].embedding))]
  IN  IF \E i \in 1..Len(e.indexedTools) :
             Len(e.indexedTools[i].embedding) # Len(queryEmbedding)
      THEN [results |-> <<>>, error |-> "VectorLength"]
      ELSE [results |-> SliceTo(SortByScoreDesc(results), topK), error |-> NoValue]

\* ------------------------------------------------------------------ state

VARIABLES
  bm25,     \* the BM25SearchEngine's fields
  regex,    \* the RegexSearchEngine's fields
  emb,      \* the EmbeddingSearchEngine's fields
  router,   \* the UnifiedSearchService's fields
  pending,  \* the embedding engine's calls suspended at their await
  clock,    \* calls issued so far
  done,     \* what the engine call that ended last returned
  hist,     \* history of the embedding engine's index
  fans,     \* the Router.initialize / Router.reload calls issued
  resp,     \* what the Router.search call that ended last returned
  probe     \* a function of the code under evaluation: its inputs, then its result

vars == <<bm25, regex, emb, router, pending, clock, done, hist, fans, resp, probe>>

\* Queries.
QReadFile == <<"r","e","a","d","_","f","i","l","e">>
QAFile == <<"a"," ","f","i","l","e">>
QZip == <<"z","i","p">>

NoDone ==
  [id |-> 0, engine |-> NoValue, op |-> NoValue, error |-> NoValue, results |-> <<>>,
   corpus |-> <<>>, idxBy |-> 0, idxModel |-> NoValue, qModel |-> NoValue,
   compared |-> FALSE, after |-> 0, query |-> <<>>, topK |-> 0, scores |-> <<>>,
   wasReady |-> FALSE, provider |-> NoValue, qDim |-> 0, idxDims |-> {},
   everOk |-> FALSE]

\* A Router.search call: the request's method and topK (<<>>: absent), the
\* method resolved, the error thrown or the results returned, and, as
\* history, the default method, the methods registered, the chosen engine's
\* isReady() and tool count when the call was made, and the engines whose
\* search it invoked.
NoResp ==
  [id |-> 0, reqMethod |-> NoValue, reqTopK |-> <<>>, method |-> NoValue,
   error |-> NoValue, results |-> <<>>, default |-> NoValue, registered |-> {},
   ready |-> FALSE, corpusSize |-> 0, invoked |-> {}, lastOk |-> NoValue]

\* hist: idxBy is the call that built emb.indexedTools (0: built by none,
\* as constructed or as emptied by reload) and idxModel the model the
\* provider computed its vectors with; okIds are the initialize and reload
\* calls that ended successfully and lastOutcome how the latest ended;
\* lastReload is the reload that ended successfully last, while no
\* initialize or reload has been issued since; last is the initialize or
\* reload issued last, overlap being a reload in flight when it was issued;
\* lexOk are the BM25 and regex engines on which an initialize, called
\* directly or by reload, has ended successfully.
NoHist ==
  [idxBy |-> 0, idxModel |-> NoValue, okIds |-> {}, lastOutcome |-> NoValue,
   lastReload |-> [id |-> 0, tools |-> <<>>],
   last |-> [id |-> 0, op |-> NoValue, tools |-> <<>>, overlap |-> 0],
   supplied |-> NoConfig, lexOk |-> {}]

\* Nothing under evaluation.
NoProbe == [fn |-> NoValue]

\* hist.supplied: for each configuration field, the value the latest
\* initialize or reload that gave the field gave it (absent: none has), k1
\* and b as given to the BM25 engine, model and format as given to the
\* embedding engine.
SuppliedTo(m, prev, cfg) ==
  IF m = "bm25"
  THEN [prev EXCEPT !.k1 = IF cfg.k1 # <<>> THEN cfg.k1 ELSE @,
                    !.b = IF cfg.b # <<>> THEN cfg.b ELSE @]
  ELSE IF m = "embedding"
  THEN [prev EXCEPT !.model = IF cfg.model # NoValue THEN cfg.model ELSE @,
                    !.format = IF cfg.format # NoValue THEN cfg.format ELSE @]
  ELSE prev

\* A router whose default method is bm25 from the start.
RouterNewDefaultBM25 ==
  [engines |-> <<>>, defaultMethod |-> "bm25", tools |-> <<>>,
   lastSet |-> [method |-> NoValue, error |-> NoValue], lastOk |-> NoValue]

\* The router as constructed.  lastSet is the latest setDefaultMethod call,
\* its argument and how it ended, and lastOk the argument of the latest one
\* that succeeded.
RouterNew ==
  [engines |-> <<>>, defaultMethod |-> "embedding", tools |-> <<>>,
   lastSet |-> [method |-> NoValue, error |-> NoValue], lastOk |-> NoValue]

\* Every engine and the router as their constructors leave them.
Constructed ==
  /\ bm25 = BM25New
  /\ regex = RegexNew
  /\ emb = EmbNew
  /\ router = RouterNew
  /\ pending = {}
  /\ clock = 0
  /\ done = NoDone
  /\ hist = NoHist
  /\ fans = <<>>
  /\ resp = NoResp

Init == Constructed /\ probe = NoProbe

IndexWriters == {"initialize", "reload"}

ReloadsInFlight == {c \in pending : c.op = "reload"}

\* A call of the embedding engine suspended at its await.  request is what
\* the provider was asked; fan is the Router.initialize or Router.reload
\* call that issued it (0: none) and ctx the Router.search call that did
\* (ctx.id = 0: none).  wasReady and after are history: whether an
\* initialize or reload had succeeded when the call was issued, the value of
\* hist.lastReload.id then, and, as ready, what isReady() returned then.
Call(id, op, request, topK, fan, ctx) ==
  [id |-> id, op |-> op, request |-> request, topK |-> topK, fan |-> fan, ctx |-> ctx,
   wasReady |-> hist.okIds # {}, after |-> hist.lastReload.id,
   ready |-> emb.initialized]

LatestReloadInFlight ==
  IF ReloadsInFlight = {} THEN 0
  ELSE (CHOOSE c \in ReloadsInFlight : \A d \in ReloadsInFlight : d.id <= c.id).id

\* hist after initialize (op = "initialize") or reload has been issued and
\* has run up to its await or to the error it throws before it.
HistIssued(op, id, tools, error) ==
  [hist EXCEPT
     !.idxBy = IF op = "reload" THEN 0 ELSE @,
     !.idxModel = IF op = "reload" THEN NoValue ELSE @,
     !.lastReload = [id |-> 0, tools |-> <<>>],
     !.last = [id |-> id, op |-> op, tools |-> tools, overlap |-> LatestReloadInFlight],
     !.lastOutcome = IF error # NoValue THEN "failed" ELSE @]

\* hist after the provider has answered initialize or reload call c.
HistBuilt(c) ==
  [hist EXCEPT
     !.idxBy = c.id,
     !.idxModel = c.request.model,
     !.okIds = @ \cup {c.id},
     !.lastOutcome = "ok",
     !.lastReload = IF c.op = "reload" /\ c.wasReady /\ hist.last.id = c.id
                    THEN [id |-> c.id, tools |-> c.request.tools] ELSE @]

\* What an engine call that ended reports.
Ended(id, engine, op, error, results) ==
  [NoDone EXCEPT !.id = id, !.engine = engine, !.op = op, !.error = error,
                 !.results = results]

\* ... with, for a search, the names of the tools of the index it read, in
\* the index's order.
EndedSearch(id, engine, r, indexTools) ==
  [Ended(id, engine, "search", r.error, r.results) EXCEPT !.corpus = Names(indexTools)]

\* ... with, for a search of the embedding engine, the index it read.
EndedEmbSearch(c, r) ==
  [EndedSearch(c.id, "embedding", r,
               [i \in 1..Len(emb.indexedTools) |-> emb.indexedTools[i].tool]) EXCEPT
     !.idxBy = hist.idxBy,
     !.idxModel = hist.idxModel,
     !.qModel = c.request.model,
     !.compared = Len(emb.indexedTools) > 0,
     !.qDim = Len(ProviderEmbed(c.request.model, c.request.input)),
     !.idxDims = {Len(emb.indexedTools[i].embedding) : i \in 1..Len(emb.indexedTools)},
     !.after = IF c.after = hist.lastReload.id THEN c.after ELSE 0,
     !.everOk = c.wasReady,
     !.wasReady = c.ready]

\* --------------------------------------- the embedding engine, called directly

EmbCorpora == {<<ReadFile, WriteFile>>, <<ListDir>>}
EmbConfigs ==
  {NoConfig, [NoConfig EXCEPT !.model = SameDimModel], [NoConfig EXCEPT !.model = WideModel]}
EmbQueries == {QReadFile, QZip}
EmbTopKs == {1, 2}

\* engine.initialize(tools, cfg) or engine.reload(tools, cfg), up to the await.
EmbIssue(op, tools, cfg) ==
  /\ clock < MaxCalls
  /\ Cardinality(pending) < MaxPending
  /\ LET r == IF op = "reload" THEN EmbReloadStart(emb, tools, cfg)
              ELSE EmbInitializeStart(emb, tools, cfg)
         id == clock + 1
     IN  /\ emb' = r.engine
         /\ clock' = id
         /\ hist' = [HistIssued(op, id, tools, r.error) EXCEPT
                       !.supplied = SuppliedTo("embedding", @, cfg)]
         /\ IF r.error # NoValue
            THEN /\ pending' = pending
                 /\ done' = Ended(id, "embedding", op, r.error, <<>>)
            ELSE /\ pending' = pending \cup {Call(id, op, r.request, 0, 0, NoResp)}
                 /\ done' = done
  /\ UNCHANGED <<bm25, regex, router, fans, resp, probe>>

EmbInitialize == \E tools \in EmbCorpora, cfg \in EmbConfigs : EmbIssue("initialize", tools, cfg)

EmbReload == \E tools \in EmbCorpora, cfg \in EmbConfigs : EmbIssue("reload", tools, cfg)

\* engine.search(query, topK), up to the await.
EmbSearch ==
  \E query \in EmbQueries, topK \in EmbTopKs :
    /\ clock < MaxCalls
    /\ Cardinality(pending) < MaxPending
    /\ LET r == EmbSearchStart(emb, query)
           id == clock + 1
       IN  /\ clock' = id
           /\ IF r.error # NoValue
              THEN /\ pending' = pending
                   /\ done' = [Ended(id, "embedding", "search", r.error, <<>>) EXCEPT
                                 !.everOk = hist.okIds # {}]
              ELSE /\ pending' = pending \cup {Call(id, "search", r.request, topK, 0, NoResp)}
                   /\ done' = done
    /\ UNCHANGED <<bm25, regex, emb, router, hist, fans, resp, probe>>

\* ------------------------------------------------ Promise.all (index.ts)

Methods == {"embedding", "bm25", "regex"}

\* A Promise.all that reports the rejection that came last.
PromiseAllLast(targets, settled) ==
  LET rejected == {i \in 1..Len(settled) : settled[i].error # NoValue}
  IN  IF Len(settled) < Len(targets)
      THEN [result |-> "pending", error |-> [method |-> NoValue, error |-> NoValue]]
      ELSE IF rejected # {}
           THEN [result |-> "failed",
                 error |-> settled[CHOOSE i \in rejected : \A j \in rejected : i >= j]]
           ELSE [result |-> "ok", error |-> [method |-> NoValue, error |-> NoValue]]

\* await Promise.all(promises), given the engines called and the calls
\* that have ended so far, in the order they ended: rejected with the
\* first rejection, fulfilled once every call is.
PromiseAll(targets, settled) ==
  LET rejected == {i \in 1..Len(settled) : settled[i].error # NoValue}
  IN  IF rejected # {}
      THEN [result |-> "failed",
            error |-> settled[CHOOSE i \in rejected : \A j \in rejected : i <= j]]
      ELSE IF Len(settled) = Len(targets)
           THEN [result |-> "ok", error |-> [method |-> NoValue, error |-> NoValue]]
           ELSE [result |-> "pending", error |-> [method |-> NoValue, error |-> NoValue]]

\* The Router call f sees what Promise.all tells it; once it has returned
\* it sees nothing more.  inFlight: the engines whose call had not ended
\* when it returned.
Joined(f) ==
  LET p == PromiseAll(f.targets, f.settled)
  IN  IF f.result # "pending" \/ p.result = "pending" THEN f
      ELSE [f EXCEPT !.result = p.result,
                     !.error = p.error,
                     !.inFlight = Range(f.targets) \ {f.settled[i].method : i \in 1..Len(f.settled)}]

\* Engine `method`'s call ends, with an error or without, inside Router call f.
FanSettle(f, method, error) ==
  Joined([f EXCEPT !.settled = Append(@, [method |-> method, error |-> error])])

FansAfter(c, error) ==
  IF c.fan = 0 THEN fans ELSE [fans EXCEPT ![c.fan] = FanSettle(@, "embedding", error)]

\* The Router.search call ctx ends with what the engine's search returned
\* or threw.
RouterResponse(ctx, r) == [ctx EXCEPT !.error = r.error, !.results = r.results]

RespAfter(c, r) == IF c.ctx.id = 0 THEN resp ELSE RouterResponse(c.ctx, r)

\* ------------------------------------------------------------ the provider

\* The provider answers call c, which runs on from its await to its end.
ProviderAnswers ==
  \E c \in pending :
    /\ pending' = pending \ {c}
    /\ IF c.op \in IndexWriters
       THEN /\ emb' = EmbInitializeFinish(emb, c.request)
            /\ hist' = HistBuilt(c)
            /\ done' = [Ended(c.id, "embedding", c.op, NoValue, <<>>) EXCEPT
                          !.provider = "answered", !.wasReady = c.ready]
            /\ fans' = FansAfter(c, NoValue)
            /\ resp' = resp
       ELSE LET r == EmbSearchFinish(emb, c.request, c.topK)
            IN  /\ done' = [EndedEmbSearch(c, r) EXCEPT !.provider = "answered"]
                /\ resp' = RespAfter(c, r)
                /\ UNCHANGED <<emb, hist, fans>>
    /\ UNCHANGED <<bm25, regex, router, clock, probe>>

\* The provider's call fails and the call that awaited it goes on as if the
\* provider had answered with no vectors.
ProviderFailsSwallowed ==
  \E c \in pending :
    /\ pending' = pending \ {c}
    /\ done' = [Ended(c.id, "embedding", c.op, NoValue, <<>>) EXCEPT
                  !.provider = "failed", !.everOk = c.op = "search" /\ c.wasReady,
                  !.wasReady = c.ready]
    /\ emb' = IF c.op \in IndexWriters
              THEN [emb EXCEPT !.indexedTools = <<>>, !.initialized = TRUE]
              ELSE emb
    /\ hist' = IF c.op \in IndexWriters THEN [hist EXCEPT !.lastOutcome = "failed"] ELSE hist
    /\ fans' = FansAfter(c, NoValue)
    /\ resp' = RespAfter(c, [error |-> NoValue, results |-> <<>>])
    /\ UNCHANGED <<bm25, regex, router, clock, probe>>

\* The provider's call fails: the await throws and call c ends with the error.
ProviderFails ==
  \E c \in pending :
    /\ pending' = pending \ {c}
    /\ done' = [Ended(c.id, "embedding", c.op, "ProviderUnavailable", <<>>) EXCEPT
                  !.provider = "failed", !.everOk = c.op = "search" /\ c.wasReady,
                  !.wasReady = c.ready]
    /\ hist' = IF c.op \in IndexWriters THEN [hist EXCEPT !.lastOutcome = "failed"] ELSE hist
    /\ fans' = FansAfter(c, "ProviderUnavailable")
    /\ resp' = RespAfter(c, [error |-> "ProviderUnavailable", results |-> <<>>])
    /\ UNCHANGED <<bm25, regex, emb, router, clock, probe>>

NextEmb == EmbInitialize \/ EmbReload \/ EmbSearch \/ ProviderAnswers \/ ProviderFails

\* The embedding engine under calls made directly on it.
SpecEmb == Init /\ [][NextEmb]_vars

\* ------------------------------------- the router (UnifiedSearchService)

Corpora == {<<ListDir, WriteFile, ReadFile>>, <<ReadFile, Ping>>}
Configs == {NoConfig, [NoConfig EXCEPT !.format = "minimal"]}
Queries == {QAFile, QZip}
\* request.topK: absent, or a number.
TopKs == {<<>>, <<0>>, <<2>>}

\* registerEngine(engine): Map.set keeps the place of a key it already has.
\* Engines are registered, in any order, before the first call, as the
\* server does at startup.
RegisterEngine ==
  \E m \in Methods :
    /\ clock = 0
    /\ router' = [router EXCEPT !.engines = IF m \in Range(@) THEN @ ELSE Append(@, m)]
    /\ UNCHANGED <<bm25, regex, emb, pending, clock, done, hist, fans, resp, probe>>

\* A setDefaultMethod that sets the default without looking at the registry.
SetDefaultMethodUnchecked ==
  \E m \in Methods :
    /\ router' = [router EXCEPT !.defaultMethod = m,
                                !.lastSet = [method |-> m, error |-> NoValue],
                                !.lastOk = m]
    /\ UNCHANGED <<bm25, regex, emb, pending, clock, done, hist, fans, resp, probe>>

\* setDefaultMethod(method): throws, changing nothing, if none is registered.
SetDefaultMethod ==
  \E m \in Methods :
    /\ router' = IF m \in Range(router.engines)
                 THEN [router EXCEPT !.defaultMethod = m,
                                     !.lastSet = [method |-> m, error |-> NoValue],
                                     !.lastOk = m]
                 ELSE [router EXCEPT !.lastSet = [method |-> m, error |-> "NotRegistered"]]
    /\ UNCHANGED <<bm25, regex, emb, pending, clock, done, hist, fans, resp, probe>>

\* engine.isReady()
IsReady(m) ==
  CASE m = "bm25" -> bm25.initialized
    [] m = "regex" -> regex.initialized
    [] OTHER -> emb.initialized

\* engine.getAllTools()
EngineTools(m) ==
  CASE m = "bm25" -> bm25.tools
    [] m = "regex" -> regex.tools
    [] OTHER -> emb.tools

\* One engine's initialize or reload as called from the fan-out: up to its
\* end for the engines that never suspend, up to its await for the
\* embedding engine.
FanCall(st, m, op, tools, cfg, id, fan) ==
  LET r == CASE m = "bm25" ->
                  IF op = "reload" THEN BM25Reload(st.bm25, tools, cfg)
                  ELSE BM25Initialize(st.bm25, tools, cfg)
             [] m = "regex" ->
                  IF op = "reload" THEN RegexReload(st.regex, tools, cfg)
                  ELSE RegexInitialize(st.regex, tools, cfg)
             [] OTHER ->
                  IF op = "reload" THEN EmbReloadStart(st.emb, tools, cfg)
                  ELSE EmbInitializeStart(st.emb, tools, cfg)
      suspended == m = "embedding" /\ r.error = NoValue
  IN  [st EXCEPT
         !.bm25 = IF m = "bm25" THEN r.engine ELSE @,
         !.regex = IF m = "regex" THEN r.engine ELSE @,
         !.emb = IF m = "embedding" THEN r.engine ELSE @,
         !.hist = IF m = "embedding" THEN HistIssued(op, id, tools, r.error) ELSE @,
         !.invoked = Append(@, [method |-> m, op |-> op, tools |-> tools, cfg |-> cfg]),
         !.settled = IF suspended THEN @ ELSE Append(@, [method |-> m, error |-> r.error]),
         !.calls = IF suspended THEN @ \cup {Call(id, op, r.request, 0, fan, NoResp)} ELSE @]

RECURSIVE FanOutFrom(_, _, _, _, _, _, _, _)
FanOutFrom(st, engines, i, op, tools, cfg, id, fan) ==
  IF i > Len(engines) THEN st
  ELSE FanOutFrom(FanCall(st, engines[i], op, tools, cfg, id, fan),
                  engines, i + 1, op, tools, cfg, id, fan)

\* Array.from(this.engines.values()).map((engine) => engine.initialize(tools, config))
\* (or engine.reload): every registered engine is called, in registration
\* order, whatever the earlier calls did.
FanOut(op, tools, cfg, id, fan) ==
  FanOutFrom([bm25 |-> bm25, regex |-> regex, emb |-> emb, hist |-> hist,
              invoked |-> <<>>, settled |-> <<>>, calls |-> {}],
             router.engines, 1, op, tools, cfg, id, fan)

\* Router.initialize(tools, cfg) and Router.reload(tools, cfg), up to the
\* await of Promise.all and, when no call is left in flight or one has
\* thrown, to the end.
RouterFan(op, tools, cfg) ==
  /\ clock < MaxOps
  /\ Cardinality(pending) < MaxPending
  /\ \E st \in {FanOut(op, tools, cfg, clock + 1, Len(fans) + 1)} :
     LET id == clock + 1
         f == [op |-> op, tools |-> tools, cfg |-> cfg, targets |-> router.engines,
               invoked |-> st.invoked, settled |-> st.settled, result |-> "pending",
               error |-> [method |-> NoValue, error |-> NoValue], inFlight |-> {}]
     IN  /\ clock' = id
         /\ router' = [router EXCEPT !.tools = tools]
         /\ bm25' = st.bm25
         /\ regex' = st.regex
         /\ emb' = st.emb
         /\ hist' = st.hist
         /\ pending' = pending \cup st.calls
         /\ fans' = Append(fans, Joined(f))
         /\ done' = IF st.settled = <<>> THEN done
                    ELSE Ended(id, st.settled[Len(st.settled)].method, op,
                               st.settled[Len(st.settled)].error, <<>>)
  /\ UNCHANGED <<resp, probe>>

RouterInitialize == \E tools \in Corpora, cfg \in Configs : RouterFan("initialize", tools, cfg)

\* Router.initializeEngine(method, tools): throws, changing nothing, if no
\* engine is registered under the method; otherwise sets the Router's tool
\* list and runs that one engine's initialize, up to its end or, on the
\* embedding engine, up to its await.
RouterInitializeEngine ==
  \E m \in Methods, tools \in Corpora :
    /\ clock < MaxOps
    /\ Cardinality(pending) < MaxPending
    /\ m \in Range(router.engines)
    /\ \E st \in {FanCall([bm25 |-> bm25, regex |-> regex, emb |-> emb, hist |-> hist,
                             invoked |-> <<>>, settled |-> <<>>, calls |-> {}],
                            m, "initialize", tools, NoConfig, clock + 1, 0)} :
         /\ clock' = clock + 1
         /\ router' = [router EXCEPT !.tools = tools]
         /\ bm25' = st.bm25
         /\ regex' = st.regex
         /\ emb' = st.emb
         /\ hist' = st.hist
         /\ pending' = pending \cup st.calls
         /\ done' = IF st.settled = <<>> THEN done
                    ELSE Ended(clock + 1, m, "initialize", st.settled[1].error, <<>>)
    /\ UNCHANGED <<fans, resp, probe>>

RouterReload == \E tools \in Corpora, cfg \in Configs : RouterFan("reload", tools, cfg)

\* A router that always dispatches to the default method.
ResolveMethodDefaultOnly(reqMethod, defaultMethod) == defaultMethod

\* const method = request.method || this.defaultMethod
ResolveMethod(reqMethod, defaultMethod) ==
  IF reqMethod # NoValue THEN reqMethod ELSE defaultMethod

\* const topK = request.topK || 5
ResolveTopK(reqTopK) ==
  IF reqTopK = <<>> \/ reqTopK[1] = 0 THEN DefaultTopK ELSE reqTopK[1]

\* Router.search(request), up to its end or to the await inside the
\* embedding engine's search.
RouterSearch ==
  \E query \in Queries, reqTopK \in TopKs, reqMethod \in Methods \cup {NoValue} :
    /\ clock < MaxOps
    /\ Cardinality(pending) < MaxPending
    /\ LET id == clock + 1
           method == ResolveMethod(reqMethod, router.defaultMethod)
           topK == ResolveTopK(reqTopK)
           registered == method \in Range(router.engines)
           ctx == [NoResp EXCEPT !.id = id, !.reqMethod = reqMethod, !.reqTopK = reqTopK,
                                 !.method = method, !.default = router.defaultMethod,
                                 !.lastOk = router.lastOk,
                                 !.registered = Range(router.engines),
                                 !.ready = registered /\ IsReady(method),
                                 !.corpusSize = Len(EngineTools(method))]
           called == [ctx EXCEPT !.invoked = {method}]
       IN  /\ clock' = id
           /\ IF ~registered
              THEN /\ resp' = [ctx EXCEPT !.error = "NotRegistered"]
                   /\ UNCHANGED <<pending, done>>
              ELSE IF ~IsReady(method)
              THEN /\ resp' = [ctx EXCEPT !.error = "NotReady"]
                   /\ UNCHANGED <<pending, done>>
              ELSE IF method = "bm25"
              THEN \E r \in {BM25Search(bm25, query, topK)} :
                       /\ resp' = RouterResponse(called, r)
                       /\ done' = EndedSearch(id, "bm25", r,
                                    [i \in 1..Len(bm25.documents) |-> bm25.documents[i].tool])
                       /\ pending' = pending
              ELSE IF method = "regex"
              THEN \E r \in {RegexSearch(regex, query, topK)} :
                       /\ resp' = RouterResponse(called, r)
                       /\ done' = EndedSearch(id, "regex", r,
                                    [i \in 1..Len(regex.documents) |-> regex.documents[i].tool])
                       /\ pending' = pending
              ELSE \E r \in {EmbSearchStart(emb, query)} :
                       /\ pending' = pending \cup {Call(id, "search", r.request, topK, 0, called)}
                       /\ UNCHANGED <<resp, done>>
    /\ UNCHANGED <<bm25, regex, emb, router, hist, fans, probe>>

Next ==
  \/ RegisterEngine
  \/ SetDefaultMethod
  \/ RouterInitialize
  \/ RouterInitializeEngine
  \/ RouterReload
  \/ RouterSearch
  \/ ProviderAnswers
  \/ ProviderFails

\* The router with the three engines, called through the router only.
Spec == Init /\ [][Next]_vars

\* ------------------------------ the BM25 and regex engines, called directly

\* Calls issued in one behaviour of SpecLex.
MaxLexCalls == 3

LexMethods == {"bm25", "regex"}
LexCorpora ==
  {<<>>, <<ListDir, WriteFile, ReadFile>>, <<GoGo, GoTool>>, <<ReadFile, GoTool>>}
LexConfigs == {NoConfig, [NoConfig EXCEPT !.k1 = <<2, 1>>]}
LexTopKs == {0, 1, 2, 5}
\* The queries: three fixed ones and the name of every tool of the corpora.
LexQueries ==
  {QAFile, QZip} \cup UNION {Range(Names(tools)) : tools \in LexCorpora}

\* engine.initialize(tools, cfg) or engine.reload(tools, cfg) on the BM25 or
\* the regex engine: neither suspends.
LexCall(op, m, tools, cfg) ==
  /\ clock < MaxLexCalls
  /\ clock' = clock + 1
  /\ \E r \in { CASE m = "bm25" /\ op = "reload" -> BM25Reload(bm25, tools, cfg)
                  [] m = "bm25" /\ op # "reload" -> BM25Initialize(bm25, tools, cfg)
                  [] m = "regex" /\ op = "reload" -> RegexReload(regex, tools, cfg)
                  [] OTHER -> RegexInitialize(regex, tools, cfg) } :
       /\ bm25' = IF m = "bm25" THEN r.engine ELSE bm25
       /\ regex' = IF m = "regex" THEN r.engine ELSE regex
       /\ done' = [Ended(clock + 1, m, op, r.error, <<>>) EXCEPT
                     !.corpus = Names(tools),
                     !.wasReady = IF m = "bm25" THEN bm25.initialized
                                  ELSE regex.initialized]
       /\ hist' = [hist EXCEPT !.supplied = SuppliedTo(m, @, cfg),
                               !.lexOk = IF r.error = NoValue THEN @ \cup {m} ELSE @]
  /\ UNCHANGED <<emb, router, pending, fans, resp, probe>>

LexWrite(op) ==
  \E m \in LexMethods, tools \in LexCorpora, cfg \in LexConfigs : LexCall(op, m, tools, cfg)

LexInitialize == LexWrite("initialize")

LexReload == LexWrite("reload")

\* The score of every document of the index for the query, in index order.
BM25Scores(e, query) ==
  [i \in 1..Len(e.documents) |->
     BM25CalculateScore(e.documents[i], Tokenize(query), e.params, e.idf, e.avgDocLength)]

RegexScores(e, query) ==
  [i \in 1..Len(e.documents) |-> RegexCalculateScore(e.documents[i], query)]

\* engine.search(query, topK) on the BM25 or the regex engine.
LexSearch ==
  \E m \in LexMethods, query \in LexQueries, topK \in LexTopKs :
    /\ clock < MaxLexCalls
    /\ clock' = clock + 1
    /\ \E r \in { IF m = "bm25" THEN BM25Search(bm25, query, topK)
                  ELSE RegexSearch(regex, query, topK) } :
         done' = [EndedSearch(clock + 1, m, r,
                    IF m = "bm25"
                    THEN [i \in 1..Len(bm25.documents) |-> bm25.documents[i].tool]
                    ELSE [i \in 1..Len(regex.documents) |-> regex.documents[i].tool])
                  EXCEPT !.query = query, !.topK = topK,
                         !.scores = IF m = "bm25" THEN BM25Scores(bm25, query)
                                    ELSE RegexScores(regex, query),
                         !.wasReady = IF m = "bm25" THEN bm25.initialized
                                      ELSE regex.initialized,
                         !.everOk = m \in hist.lexOk]
    /\ UNCHANGED <<bm25, regex, emb, router, pending, hist, fans, resp, probe>>

NextLex == LexInitialize \/ LexReload \/ LexSearch

\* The BM25 and the regex engine under calls made directly on them.
SpecLex == Init /\ [][NextLex]_vars

\* -------------------------------- the three engines, each called directly

\* initialize or reload of any engine, up to its end or, on the embedding
\* engine, up to its await.
ReadyWrite ==
  \E op \in IndexWriters, m \in Methods, tools \in {<<ReadFile>>, <<ReadFile, Ping>>} :
    IF m = "embedding"
    THEN clock < MaxLexCalls /\ EmbIssue(op, tools, NoConfig)
    ELSE LexCall(op, m, tools, NoConfig)

\* The three engines under initialize, reload and search calls made
\* directly on them, with tools that are well formed or not and a provider
\* that answers or fails.
SpecReady ==
  Init /\ [][ReadyWrite \/ EmbSearch \/ LexSearch \/ ProviderAnswers \/ ProviderFails]_vars

\* ------------------------- configuration across initialize and reload calls

\* A config that gives one field, or all four, or none.
CfgConfigs ==
  {NoConfig,
   [NoConfig EXCEPT !.k1 = <<2, 1>>],
   [NoConfig EXCEPT !.b = <<1, 2>>],
   [NoConfig EXCEPT !.model = SameDimModel],
   [NoConfig EXCEPT !.format = "minimal"],
   [model |-> WideModel, format |-> "verbose", k1 |-> <<1, 1>>, b |-> <<1, 1>>]}

CfgCorpora == {<<ReadFile>>, <<ReadFile, Ping>>}

\* initialize or reload of the BM25 engine.
CfgBM25 ==
  \E op \in IndexWriters, tools \in CfgCorpora, cfg \in CfgConfigs :
    LexCall(op, "bm25", tools, cfg)

\* initialize or reload of the embedding engine, up to its await.
CfgEmbedding ==
  \E op \in IndexWriters, tools \in CfgCorpora, cfg \in CfgConfigs :
    clock < MaxLexCalls /\ EmbIssue(op, tools, cfg)

NextCfg == CfgBM25 \/ CfgEmbedding \/ ProviderAnswers \/ ProviderFails

\* The BM25 and the embedding engine under initialize and reload calls that
\* give some, all or none of the configuration fields.
SpecCfg == Init /\ [][NextCfg]_vars

\* ------------------------------------- estimateFormatTokens (formats.ts)

\* The largest number of properties of a tool whose formats are estimated.
MaxParams == 2

\* The tools whose formats are estimated.  A value of the properties map is
\* an object with a description, an object without one, or a value that is
\* not an object (the schema "true"); a map has at most MaxParams entries
\* and a key occurs once.  The required list names no key, one or two.
FormatTools ==
  LET values == {ReadFile.params[1], ListDir.params[1], ListDir.params[2]}
      maps == {ps \in UNION {[1..n -> values] : n \in 0..MaxParams} :
                 \A i, j \in 1..Len(ps) : ps[i].key = ps[j].key => i = j}
  IN  {[name |-> n, description |-> d, hasSchema |-> TRUE, params |-> ps,
        required |-> r] :
         n \in {GoTool.name, ReadFile.name},
         d \in {<<>>, GoTool.description, ReadFile.description},
         ps \in maps,
         r \in {<<>>, <<ReadFile.params[1].key>>,
                <<ListDir.params[1].key, ListDir.params[2].key>>}}

\* Math.ceil(text.length / 4)
EstimateFormatTokens(tool, format) ==
  (Len(FormatToolForEmbedding(tool, format)) + 3) \div 4

InitFormats ==
  /\ Constructed
  /\ probe \in {[fn |-> "estimateFormatTokens", tool |-> t, texts |-> <<>>,
                 tokens |-> <<>>] : t \in FormatTools}

\* One call estimateFormatTokens(probe.tool, format); texts keeps the text
\* formatToolForEmbedding gave it and tokens the estimate, for every format
\* asked so far.
EstimateFormat ==
  \E format \in Formats :
    /\ probe.fn = "estimateFormatTokens"
    /\ format \notin DOMAIN probe.tokens
    /\ probe' = [probe EXCEPT
                   !.texts =
                     [f \in DOMAIN probe.texts \cup {format} |->
                        IF f = format THEN FormatToolForEmbedding(probe.tool, format)
                        ELSE probe.texts[f]],
                   !.tokens =
                     [f \in DOMAIN probe.tokens \cup {format} |->
                        IF f = format THEN EstimateFormatTokens(probe.tool, format)
                        ELSE probe.tokens[f]]]
    /\ UNCHANGED <<bm25, regex, emb, router, pending, clock, done, hist, fans, resp>>

SpecFormats == InitFormats /\ [][EstimateFormat]_vars

\* ------------------------------------- calculateScore (rewriter.ts 436-456)

\* The longest document whose score is calculated.
MaxDocLen == 4

\* The term the query asks for.
ScoredTerm == <<"g", "o">>

\* A document of docLen tokens, a corpus of docCount documents of which
\* docFreq hold the term, the parameters and the average length.
InitScores ==
  /\ Constructed
  /\ probe \in {[fn |-> "calculateScore", params |-> [k1 |-> k1, b |-> b],
                 length |-> docLen, avgDocLength |-> avg,
                 idf |-> [t \in {ScoredTerm} |-> IdfOf(c[1], c[2])],
                 scores |-> <<>>] :
                  k1 \in {<<1, 2>>, <<3, 2>>, <<2, 1>>},
                  b \in {<<0, 1>>, <<3, 4>>, <<1, 1>>},
                  docLen \in 1..MaxDocLen,
                  avg \in {<<1, 1>>, <<5, 2>>, <<4, 1>>},
                  c \in {<<1, 1>>, <<3, 1>>, <<3, 3>>}}

\* calculateScore of the one-term query for the document in which the term
\* occurs tf times; scores keeps the score of every tf asked so far.
ScoreTerm ==
  \E tf \in 0..MaxDocLen :
    /\ probe.fn = "calculateScore"
    /\ tf <= probe.length
    /\ tf \notin DOMAIN probe.scores
    /\ LET doc == [termFrequencies |-> [t \in {x \in {ScoredTerm} : tf > 0} |-> tf],
                   length |-> probe.length]
           score == BM25CalculateScore(doc, <<ScoredTerm>>, probe.params,
                                       probe.idf, probe.avgDocLength)
       IN  probe' = [probe EXCEPT !.scores =
                       [f \in DOMAIN probe.scores \cup {tf} |->
                          IF f = tf THEN score ELSE probe.scores[f]]]
    /\ UNCHANGED <<bm25, regex, emb, router, pending, clock, done, hist, fans, resp>>

SpecScores == InitScores /\ [][ScoreTerm]_vars

\* ---------------------------------- cosineSimilarity (embedding.ts 85-106)

\* Two vectors of one length, 2 or 3; every vector has an integer norm (0,
\* 1, 5 or 10), so that Math.sqrt is exact.
InitCosine ==
  /\ Constructed
  /\ \E vs \in { {<<5, 0>>, <<3, 4>>, <<0, 5>>, <<-4, 3>>, <<0, 0>>, <<-5, 0>>,
                   <<-3, -4>>, <<4, -3>>, <<6, 8>>, <<1, 0>>},
                 {<<5, 0, 0>>, <<3, 4, 0>>, <<0, 3, 4>>, <<0, 0, 0>>} } :
       probe \in {[fn |-> "cosineSimilarity", a |-> a, b |-> b,
                   similarity |-> <<>>] : a \in vs, b \in vs}

\* One call cosineSimilarity(probe.a, probe.b).
Cosine ==
  /\ probe.fn = "cosineSimilarity"
  /\ probe.similarity = <<>>
  /\ probe' = [probe EXCEPT !.similarity = <<CosineSimilarity(probe.a, probe.b)>>]
  /\ UNCHANGED <<bm25, regex, emb, router, pending, clock, done, hist, fans, resp>>

SpecCosine == InitCosine /\ [][Cosine]_vars

\* ------------------------------------------- claims on the embedding engine

EmbSearchReturned == done.engine = "embedding" /\ done.op = "search" /\ done.error = NoValue

\* C1: a search of the embedding engine that returns results has computed
\* them from an index some initialize or reload built completely (the one
\* before the rebuild or the rebuilt one), never from the index a reload in
\* progress had emptied.
C1_SearchReadsACompleteIndex == EmbSearchReturned => done.idxBy # 0

\* C2 (the embedding engine): isReady() is false while no initialize or
\* reload has ended successfully, false while a reload is in flight, and
\* true when the latest initialize or reload to end has succeeded and no
\* reload is in flight.
C2_ReadyExactlyWhenBuilt ==
  /\ hist.okIds = {} => ~emb.initialized
  /\ ReloadsInFlight # {} => ~emb.initialized
  /\ (hist.lastOutcome = "ok" /\ ReloadsInFlight = {}) => emb.initialized

\* C5 (the embedding engine): once reload(T2), issued on an engine that had
\* been initialized and with no initialize or reload issued after it, has
\* ended successfully, the index holds one entry per tool of T2 in T2's
\* order, and a search issued afterwards returns only tools of T2.
C5_ReloadReplacesTheCorpus ==
  /\ hist.lastReload.id # 0 =>
       [i \in 1..Len(emb.indexedTools) |-> emb.indexedTools[i].tool.name]
         = Names(hist.lastReload.tools)
  /\ (EmbSearchReturned /\ done.after # 0 /\ done.after = hist.lastReload.id) =>
       \A i \in 1..Len(done.results) :
         done.results[i].name \in Range(Names(hist.lastReload.tools))

\* C9: when a reload is issued while another reload is in flight and both
\* have ended successfully, with no initialize or reload issued since or
\* still in flight, the index, the stored tool list and the model all come
\* from the reload issued last.
C9_OverlappingReloadsAreSerialized ==
  ( /\ hist.last.op = "reload"
    /\ hist.last.overlap # 0
    /\ {hist.last.id, hist.last.overlap} \subseteq hist.okIds
    /\ \A c \in pending : c.op \notin IndexWriters )
  => ( /\ hist.idxBy = hist.last.id
       /\ emb.tools = hist.last.tools
       /\ hist.idxModel = emb.currentModel )

\* C10: whenever a search of the embedding engine compares its query vector
\* with the index, the model the provider embedded the query with is the
\* model it had embedded the index with.
C10_QueryModelIsIndexModel ==
  (done.engine = "embedding" /\ done.op = "search" /\ done.compared)
    => done.qModel = done.idxModel

\* C13: when the provider's call fails during initialize, reload or search
\* of the embedding engine, that call fails with the provider's error and
\* returns no result list, and a failed initialize or reload does not turn
\* an engine that was not ready into a ready one.
C13_ProviderFailureSurfaces ==
  [][ (done'.provider = "failed" /\ done'.id # done.id) =>
        /\ done'.error = "ProviderUnavailable"
        /\ done'.results = <<>>
        /\ (done'.op \in IndexWriters /\ ~emb.initialized) => ~emb'.initialized ]_vars

\* The provider has failed a reload of an engine that had been initialized,
\* and the engine is not ready.
C13_Witness ==
  /\ done.provider = "failed"
  /\ done.op = "reload"
  /\ hist.okIds # {}
  /\ ~emb.initialized

\* C14: a search of the embedding engine whose query vector differs in
\* length from a vector of the index fails with an error and returns no
\* result list, and leaves the engine's index and readiness as they were.
C14_DimensionMismatchFails ==
  [][ ( /\ done'.id # done.id
        /\ done'.engine = "embedding"
        /\ done'.op = "search"
        /\ done'.provider = "answered"
        /\ done'.idxDims \ {done'.qDim} # {} )
      => /\ done'.error # NoValue
         /\ done'.results = <<>>
         /\ emb' = emb ]_vars

\* A search has compared a query vector of three components with an index
\* of vectors of two.
C14_Witness ==
  /\ done.engine = "embedding"
  /\ done.op = "search"
  /\ done.qDim = 3
  /\ done.idxDims = {2}
  /\ emb.initialized

\* ---------------------------------------------------- claims on the router

\* The place of tool `name` in a corpus given by its names.
Place(names, name) == CHOOSE i \in 1..Len(names) : names[i] = name

SearchEnded == done.op = "search" /\ done.error = NoValue

\* C3: a Router search that is given an integer topK >= 0 and returns
\* results returns at most min(topK, corpusSize) of them, corpusSize being
\* the number of tools the chosen engine was last initialized with.
C3_AtMostTopKResults ==
  (resp.id # 0 /\ resp.error = NoValue /\ resp.reqTopK # <<>>)
    => Len(resp.results) <= Min(resp.reqTopK[1], resp.corpusSize)

\* C4: the list any engine's search returns is ordered by score,
\* non-increasing, and two results of equal score stand in the order their
\* tools have in the corpus the index was built from.
C4_ResultsSortedAndStable ==
  SearchEnded =>
    \A i, j \in 1..Len(done.results) :
      i < j =>
        /\ done.results[i].score >= done.results[j].score
        /\ done.results[i].score = done.results[j].score
             => Place(done.corpus, done.results[i].name)
                  < Place(done.corpus, done.results[j].name)

\* A search has returned two results of equal score, and a result that
\* stands before a tool that precedes it in the corpus.
C4_Witness ==
  /\ SearchEnded
  /\ \E i, j \in 1..Len(done.results) :
       i < j /\ done.results[i].score = done.results[j].score
  /\ \E i, j \in 1..Len(done.results) :
       i < j /\ Place(done.corpus, done.results[i].name)
                  > Place(done.corpus, done.results[j].name)

\* C6: Router.search resolves the method to the request's method when it
\* gives one and to the default method otherwise; with no engine registered
\* under it the call fails with the not-registered error, with that engine
\* not ready it fails with the not-ready error, and in both cases no
\* engine's search is invoked; otherwise the search of that engine alone is
\* invoked and the response carries that search's results (or its error)
\* and the resolved method.
C6_SearchDispatch ==
  resp.id # 0 =>
    /\ resp.method = IF resp.reqMethod # NoValue THEN resp.reqMethod ELSE resp.default
    /\ resp.method \notin resp.registered
         => resp.error = "NotRegistered" /\ resp.invoked = {}
    /\ (resp.method \in resp.registered /\ ~resp.ready)
         => resp.error = "NotReady" /\ resp.invoked = {}
    /\ (resp.method \in resp.registered /\ resp.ready)
         => /\ resp.invoked = {resp.method}
            /\ resp.error \notin {"NotRegistered", "NotReady"}
            /\ done.id = resp.id
                 => /\ done.engine = resp.method
                    /\ done.op = "search"
                    /\ done.error = resp.error
                    /\ done.results = resp.results

\* A Router search naming a method other than the default has returned that
\* engine's results.
C6_Witness ==
  /\ resp.id # 0
  /\ resp.reqMethod \in Methods \ {resp.default}
  /\ resp.error = NoValue
  /\ resp.results # <<>>
  /\ done.id = resp.id

\* The calls of Router call f that have ended with an error, by their place
\* in the order of ending.
Failures(f) == {i \in 1..Len(f.settled) : f.settled[i].error # NoValue}

\* C7: Router.initialize and Router.reload call initialize (reload) once on
\* every registered engine, with the tools and the config they were given;
\* the Router call succeeds exactly when every engine's call has succeeded,
\* and fails, once an engine's call has failed, with the error of the call
\* that failed first.
C7_FanOutJoinsAll ==
  \A k \in 1..Len(fans) :
    LET f == fans[k]
    IN  /\ Len(f.invoked) = Len(f.targets)
        /\ \A i \in 1..Len(f.targets) :
             f.invoked[i] = [method |-> f.targets[i], op |-> f.op,
                             tools |-> f.tools, cfg |-> f.cfg]
        /\ f.result = "ok" <=> (Len(f.settled) = Len(f.targets) /\ Failures(f) = {})
        /\ f.result = "failed" <=> Failures(f) # {}
        /\ Failures(f) # {} =>
             f.error = f.settled[CHOOSE i \in Failures(f) : \A j \in Failures(f) : i <= j]

\* A Router call on three engines has failed, two of its engines' calls
\* having failed.
C7_Witness ==
  \E k \in 1..Len(fans) :
    /\ Len(fans[k].targets) = 3
    /\ fans[k].result = "failed"
    /\ Cardinality(Failures(fans[k])) >= 2

RegexSearched == done.engine = "regex" /\ done.op = "search"

C12_ExactNameRanksFirst ==
  ( /\ RegexSearched
    /\ done.wasReady
    /\ done.topK >= 1
    /\ done.query \in Range(done.corpus) )
  => /\ done.error = NoValue
     /\ Len(done.results) >= 1
     /\ done.results[1].name = done.query
     /\ done.results[1].score >= 100 * Scale

\* C15: after any sequence of initialize and reload calls, whether they
\* succeeded, failed or are still in flight, each configuration field (k1
\* and b of the BM25 engine, model and format of the embedding engine) has
\* the value the latest call that gave the field gave it, and its default
\* (k1 = 1.5, b = 0.75, format "rich", the constructor's model) when no call
\* has: a call that leaves a field out leaves the field as it was.
C15_ConfigPersists ==
  /\ bm25.params.k1 = IF hist.supplied.k1 = <<>> THEN <<3, 2>> ELSE hist.supplied.k1
  /\ bm25.params.b = IF hist.supplied.b = <<>> THEN <<3, 4>> ELSE hist.supplied.b
  /\ emb.currentModel
       = IF hist.supplied.model = NoValue THEN DefaultModel ELSE hist.supplied.model
  /\ emb.currentFormat
       = IF hist.supplied.format = NoValue THEN "rich" ELSE hist.supplied.format

\* Every field has been given, and the call issued last, a reload of the
\* BM25 engine that gave none, has ended.
C15_Witness ==
  /\ hist.supplied.k1 # <<>>
  /\ hist.supplied.b # <<>>
  /\ hist.supplied.model # NoValue
  /\ hist.supplied.format # NoValue
  /\ done.engine = "bm25"
  /\ done.op = "reload"
  /\ done.id = clock
  /\ bm25.params.k1 # <<3, 2>>

\* C16: initialize([]) on the BM25 or the regex engine ends without error
\* and leaves the engine ready, and a search of a ready engine whose index
\* is empty returns the empty list, without error, for every query and
\* every topK.
C16_EmptyCorpusSearch ==
  /\ (done.engine \in LexMethods /\ done.op = "initialize" /\ done.corpus = <<>>)
       => done.error = NoValue /\ IsReady(done.engine)
  /\ ( /\ done.engine \in LexMethods
       /\ done.op = "search"
       /\ done.wasReady
       /\ done.corpus = <<>> )
     => done.error = NoValue /\ done.results = <<>>

\* The BM25 engine, initialized with no tools, has been searched with topK 5.
C16_Witness ==
  /\ done.engine = "bm25"
  /\ done.op = "search"
  /\ done.wasReady
  /\ done.corpus = <<>>
  /\ bm25.tools = <<>>
  /\ done.topK = 5
  /\ done.error = NoValue

\* C17 as stated: after BM25 initialize with an empty corpus the stored
\* average document length is not zero.
C17_AvgDocLengthNonzero ==
  (bm25.initialized /\ bm25.documents = <<>>) => bm25.avgDocLength[1] # 0

\* C17 as amended: the average document length is the total length over
\* max(N, 1), never a division by zero; after BM25 initialize with an empty
\* corpus it is 0; and it is positive whenever the index holds a document
\* that has a term, the only documents for which the BM25 score evaluates
\* docLen / avgDocLen.
C17_AvgDocLengthGuard ==
  /\ bm25.avgDocLength[2] # 0
  /\ (bm25.initialized /\ bm25.documents = <<>>) => bm25.avgDocLength[1] = 0
  /\ (\E i \in 1..Len(bm25.documents) : bm25.documents[i].length > 0)
       => bm25.avgDocLength[1] > 0

\* The BM25 engine, initialized with no tools, has been searched.
C17_Witness ==
  /\ bm25.initialized
  /\ bm25.documents = <<>>
  /\ bm25.avgDocLength = <<0, 1>>
  /\ done.engine = "bm25"
  /\ done.op = "search"
  /\ done.error = NoValue

\* C29: a search of the BM25 engine, whatever initialize and reload calls
\* built its index and left entries in its IDF table, returns the names,
\* the order and the scores that a fresh BM25 engine with the same k1 and b,
\* initialized once with the same tools, returns for the query and topK.
C29_StaleIdfIsNeverRead ==
  (done.engine = "bm25" /\ done.op = "search" /\ done.wasReady) =>
    LET fresh == BM25Initialize([BM25New EXCEPT !.params = bm25.params],
                                bm25.tools, NoConfig).engine
    IN  /\ done.error = NoValue
        /\ done.results = BM25Search(fresh, done.query, done.topK).results
        /\ done.scores = BM25Scores(fresh, done.query)

\* The BM25 engine, initialized with one corpus and then, without reload,
\* with another that shares terms with it, holds IDF entries of terms that
\* no document has, and a search of it has returned a tool.
C29_Witness ==
  /\ done.engine = "bm25"
  /\ done.op = "search"
  /\ done.wasReady
  /\ done.results # <<>>
  /\ done.results[1].score > 0
  /\ bm25.tools = <<ReadFile, GoTool>>
  /\ <<"l", "i", "s", "t">> \in DOMAIN bm25.idf

\* C26: when some tool of the index has a positive score for the query,
\* the regex engine returns only tools of positive score: the min(topK,
\* number of matching tools) first of them, and no tool that scores 0 even
\* when fewer than topK tools match.
C26_OnlyMatchesReturned ==
  ( /\ RegexSearched
    /\ done.error = NoValue
    /\ \E i \in 1..Len(done.scores) : done.scores[i] > 0 )
  => /\ \A j \in 1..Len(done.results) : done.results[j].score > 0
     /\ Len(done.results)
          = Min(done.topK, Cardinality({i \in 1..Len(done.scores) : done.scores[i] > 0}))

\* A search with topK 5 over three tools has returned the one or two that
\* match, and not the others.
C26_Witness ==
  /\ RegexSearched
  /\ done.topK = 5
  /\ Len(done.scores) = 3
  /\ \E i \in 1..Len(done.scores) : done.scores[i] = 0
  /\ Len(done.results) \in {1, 2}
  /\ \A j \in 1..Len(done.results) : done.results[j].score > 0

RECURSIVE AvailableDescriptions(_, _)
\* The descriptions of the parameters that have one, in the map's order.
AvailableDescriptions(params, i) ==
  IF i > Len(params) THEN <<>>
  ELSE (IF params[i].isObject /\ params[i].hasDesc THEN <<params[i].desc>> ELSE <<>>)
         \o AvailableDescriptions(params, i + 1)

\* The tokens of a tool's spaced name, raw name, description, parameter
\* names and available parameter descriptions, each part taken once.
PartsTokens(tool) ==
  Tokenize(Join(<<ReplaceUnderscores(tool.name), tool.name, tool.description>>
                  \o ParamKeys(tool) \o AvailableDescriptions(tool.params, 1),
                <<" ">>))

\* C25: in the BM25 index, the term frequencies and the token count of
\* every tool's document are those of the tokens of its spaced name, raw
\* name, description, parameter names and available parameter descriptions,
\* each parameter name taken once.
C25_DocumentCountsEachPartOnce ==
  \A i \in 1..Len(bm25.documents) :
    LET tokens == PartsTokens(bm25.documents[i].tool)
    IN  /\ bm25.documents[i].length = Len(tokens)
        /\ bm25.documents[i].termFrequencies = CalculateTermFrequencies(tokens)

\* ----------------------------------------------------- claims on the formats

\* C18: for every tool, the token estimate does not decrease along minimal,
\* standard, rich, verbose.
C18_TokensNonDecreasing ==
  probe.fn = "estimateFormatTokens" =>
    \A pair \in {<<"minimal", "standard">>, <<"standard", "rich">>,
                 <<"rich", "verbose">>} :
      (pair[1] \in DOMAIN probe.tokens /\ pair[2] \in DOMAIN probe.tokens)
        => probe.tokens[pair[1]] <= probe.tokens[pair[2]]

RECURSIVE LinesFrom(_, _, _, _)
LinesFrom(s, i, acc, cur) ==
  IF i > Len(s) THEN Append(acc, cur)
  ELSE IF s[i] = "\n" THEN LinesFrom(s, i + 1, Append(acc, cur), <<>>)
       ELSE LinesFrom(s, i + 1, acc, Append(cur, s[i]))

\* The lines of a text.
Lines(s) == LinesFrom(s, 1, <<>>, <<>>)

\* The line of the k-th parameter in a structured text: the lines Tool,
\* Description and Parameters precede the parameters' lines.
ParamLine(text, k) == Lines(text)[3 + k]

\* The structured text of the tool under evaluation has been formatted.
StructuredFormatted ==
  probe.fn = "estimateFormatTokens" /\ "structured" \in DOMAIN probe.texts

\* C24 as stated: in the structured format the line of a required parameter
\* carries a * placed before the parameter's name, at the head of the line,
\* and the line of any other parameter carries no *.
C24_MarkerLeads ==
  StructuredFormatted =>
    \A k \in 1..Len(probe.tool.params) :
      LET line == ParamLine(probe.texts["structured"], k)
          key == probe.tool.params[k].key
      IN  IF key \in Range(probe.tool.required)
          THEN StartsWith(line, <<" ", " ", "*">> \o key)
          ELSE "*" \notin Range(line)

\* C24 as amended: in the structured format the line of a required
\* parameter carries a * placed directly behind the parameter's name, before
\* the colon, and the line of any other parameter carries no *.
C24_MarkerFollowsName ==
  StructuredFormatted =>
    \A k \in 1..Len(probe.tool.params) :
      LET line == ParamLine(probe.texts["structured"], k)
          key == probe.tool.params[k].key
      IN  IF key \in Range(probe.tool.required)
          THEN StartsWith(line, <<" ", " ">> \o key \o <<"*", ":", " ">>)
          ELSE StartsWith(line, <<" ", " ">> \o key \o <<":", " ">>)
                 /\ "*" \notin Range(line)

\* A tool with a required and a non-required parameter has been formatted.
C24_Witness ==
  /\ StructuredFormatted
  /\ Len(probe.tool.params) = 2
  /\ probe.tool.params[1].key \in Range(probe.tool.required)
  /\ probe.tool.params[2].key \notin Range(probe.tool.required)
  /\ Len(Lines(probe.texts["structured"])) = 5

\* ------------------------------------------------- claims on the BM25 score

\* C19: with k1 > 0 and 0 <= b <= 1, for a fixed document length, average
\* document length and IDF, a higher term frequency never gives a lower
\* score.
C19_ScoreMonotoneInTf ==
  probe.fn = "calculateScore" =>
    \A t1, t2 \in DOMAIN probe.scores :
      t1 <= t2 => probe.scores[t1] <= probe.scores[t2]

\* With the default k1 and b, a document longer than the average has been
\* scored for one and for three occurrences of the term, and the score grew.
C19_Witness ==
  /\ probe.fn = "calculateScore"
  /\ probe.params = [k1 |-> <<3, 2>>, b |-> <<3, 4>>]
  /\ probe.length = 4
  /\ probe.avgDocLength = <<5, 2>>
  /\ {1, 3} \subseteq DOMAIN probe.scores
  /\ 0 < probe.scores[1]
  /\ probe.scores[1] < probe.scores[3]

\* ------------------------------------------ claims on the cosine similarity

C21_SetDefaultMethod ==
  [][ /\ router'.lastSet # router.lastSet =>
           IF router'.lastSet.method \in Range(router.engines)
           THEN /\ router'.lastSet.error = NoValue
                /\ router'.defaultMethod = router'.lastSet.method
           ELSE /\ router'.lastSet.error = "NotRegistered"
                /\ router'.defaultMethod = router.defaultMethod
      /\ (resp'.id # resp.id /\ resp'.reqMethod = NoValue /\ resp'.lastOk # NoValue)
           => /\ resp'.method = resp'.lastOk
              /\ resp'.invoked \subseteq {resp'.lastOk}
              /\ resp'.error # "NotRegistered" ]_vars

\* setDefaultMethod("bm25") has succeeded, a search without a method has
\* returned the BM25 engine's results, and a later setDefaultMethod of an
\* unregistered method has failed.
C21_Witness ==
  /\ resp.id # 0
  /\ resp.reqMethod = NoValue
  /\ resp.lastOk = "bm25"
  /\ resp.invoked = {"bm25"}
  /\ resp.results # <<>>
  /\ router.lastSet.error = "NotRegistered"
  /\ router.defaultMethod = "bm25"

\* The tools of the index engine m searches, in the index's order.
IndexTools(m) ==
  CASE m = "bm25" -> [i \in 1..Len(bm25.documents) |-> bm25.documents[i].tool]
    [] m = "regex" -> [i \in 1..Len(regex.documents) |-> regex.documents[i].tool]
    [] OTHER -> [i \in 1..Len(emb.indexedTools) |-> emb.indexedTools[i].tool]

\* C27: after any Router initialize, initializeEngine and reload calls, the
\* tool list of the Router is the tool list getAllTools() reports on every
\* registered engine that is ready, and that list is the list of the tools
\* in the engine's index.
C27_ToolListsAgree ==
  \A m \in Range(router.engines) :
    IsReady(m) => /\ router.tools = EngineTools(m)
                  /\ EngineTools(m) = IndexTools(m)

\* C30 as stated: whenever an engine is registered, the default method is a
\* registered one, and no search without a method fails with the
\* not-registered error.
C30_DefaultIsRegistered ==
  /\ router.engines # <<>> => router.defaultMethod \in Range(router.engines)
  /\ (resp.id # 0 /\ resp.reqMethod = NoValue /\ resp.registered # {})
       => resp.error # "NotRegistered"

\* C30 as amended: the default method is the constructor's default,
\* embedding, or a registered method; so a search without a method fails
\* with the not-registered error only while the default is embedding and
\* the embedding engine is not registered, and never once the embedding
\* engine is registered or a setDefaultMethod has succeeded.
C30_DefaultIsEmbeddingOrRegistered ==
  /\ router.defaultMethod = "embedding" \/ router.defaultMethod \in Range(router.engines)
  /\ (resp.id # 0 /\ resp.reqMethod = NoValue /\ resp.error = "NotRegistered")
       => /\ resp.default = "embedding"
          /\ "embedding" \notin resp.registered
          /\ resp.lastOk = NoValue

\* With the BM25 engine alone registered and the default never set, a search
\* without a method has failed with the not-registered error.
C30_Witness ==
  /\ router.engines = <<"bm25">>
  /\ resp.id # 0
  /\ resp.reqMethod = NoValue
  /\ resp.default = "embedding"
  /\ resp.error = "NotRegistered"

\* ----------------------------------------- claims on the engines' readiness

\* C28: when a reload of the embedding engine, called while the engine was
\* ready, fails at the provider, the engine is then not ready and its index
\* is empty; and the engine becomes ready only in a step in which an
\* initialize or a reload ends successfully.
C28_FailedReloadLeavesNotReady ==
  [][ /\ ( /\ done'.id # done.id
           /\ done'.engine = "embedding"
           /\ done'.op = "reload"
           /\ done'.provider = "failed"
           /\ done'.wasReady )
           => ~emb'.initialized /\ emb'.indexedTools = <<>>
      /\ (emb'.initialized /\ ~emb.initialized)
           => /\ done'.id # done.id
              /\ done'.op \in IndexWriters
              /\ done'.provider = "answered" ]_vars

\* C22: on every engine, a search called while no initialize of that engine
\* has yet ended successfully fails with the not-initialized error, returns
\* no results and changes no engine's state.
C22_SearchBeforeInitializeFails ==
  [][ (done'.id # done.id /\ done'.op = "search" /\ ~done'.everOk)
        => /\ done'.error = "NotInitialized"
           /\ done'.results = <<>>
           /\ UNCHANGED <<bm25, regex, emb>> ]_vars

\* The embedding engine has been searched after an initialize that failed at
\* the provider, and the BM25 engine holds the tools of an initialize that
\* failed.
C22_Witness ==
  /\ done.op = "search"
  /\ done.engine = "embedding"
  /\ done.error = "NotInitialized"
  /\ hist.lastOutcome = "failed"
  /\ hist.okIds = {}
  /\ bm25.tools = <<ReadFile, Ping>>
  /\ ~bm25.initialized

\* C23: an initialize or reload of the BM25 or the regex engine ends in the
\* step that begins it, leaving no call in flight; with well-formed tools
\* it ends without error with the engine ready and the index built from
\* exactly the tools it was given; and a search of an engine on which an
\* initialize has once succeeded finds it ready, with an index that holds
\* the engine's tool list.
C23_LexicalWritesAreAtomic ==
  [][ /\ (done'.id # done.id /\ done'.engine \in LexMethods /\ done'.op \in IndexWriters)
           => /\ pending' = pending
              /\ done'.error = NoValue
              /\ LET e == IF done'.engine = "bm25" THEN bm25' ELSE regex'
                 IN  /\ e.initialized
                     /\ Names(e.tools) = done'.corpus
                     /\ [i \in 1..Len(e.documents) |-> e.documents[i].tool.name]
                          = done'.corpus
      /\ ( /\ done'.id # done.id
           /\ done'.engine \in LexMethods
           /\ done'.op = "search"
           /\ done'.everOk )
           => /\ done'.wasReady
              /\ done'.error = NoValue
              /\ done'.corpus = Names(EngineTools(done'.engine)) ]_vars

\* The BM25 engine, ready with one corpus, has been reloaded with another.
C23_Witness ==
  /\ done.engine = "bm25"
  /\ done.op = "reload"
  /\ done.wasReady
  /\ done.error = NoValue
  /\ done.corpus = <<GoGo.name, GoTool.name>>
  /\ bm25.initialized
  /\ DOMAIN bm25.idf = {<<"g", "o">>, <<"r", "u", "n">>}

====
